---- MODULE Spec2Model ----
(***************************************************************************)
(* A model of decompress-filewriter (src/src/index.ts): write(file, input, *)
(* output, opts) materialises one archive entry under an output root.      *)
(*                                                                         *)
(* A file name is a sequence of characters, a path is a sequence of path   *)
(* segments, and the string the code compares with startsWith is the       *)
(* rendering of a canonical path as characters.  The filesystem is a map   *)
(* from canonical paths to inodes, with symbolic links resolved the way    *)
(* the kernel resolves them.  Every await of the source is one step.       *)
(***************************************************************************)
EXTENDS Integers, Sequences, FiniteSets, TLC

VARIABLES fs, inodes, platform, calls, ncalls, log, links, returns, fs0, inodes0

vars == <<fs, inodes, platform, calls, ncalls, log, links, returns, fs0, inodes0>>

(***************************************************************************)
(* Bounds.                                                                 *)
(***************************************************************************)
MaxCalls == 2
MaxHops == 6
MaxChunk == 2
MaxOptCalls == 1
MaxLiveCalls == 1

(***************************************************************************)
(* Names and path segments.                                                *)
(***************************************************************************)
nO == <<"o">>
nOx == <<"o", "x">>
nE == <<"e">>
nS == <<"s">>
nA == <<"a">>
nB == <<"b">>
nF == <<"f">>
nG == <<"g">>
nP == <<"p">>
nR == <<"r">>
nL == <<"l">>
nC == <<"c">>
nZ == <<"z">>
nH == <<"h">>
nK == <<"k">>
nN == <<"n">>
nD == <<"d">>
DotDot == <<".", ".">>
Dot == <<".">>
Empty == <<>>

IsName(t) == t # Empty /\ t # Dot /\ t # DotDot

IsPrefix(a, b) == Len(a) <= Len(b) /\ SubSeq(b, 1, Len(a)) = a

Last(s) == s[Len(s)]

Front(s) == SubSeq(s, 1, Len(s) - 1)

Drop(s, n) == SubSeq(s, n + 1, Len(s))

RECURSIVE PathStr(_)
PathStr(p) ==
  IF p = <<>> THEN <<>> ELSE <<"/">> \o Head(p) \o PathStr(Tail(p))

\* The string realpath returns for a canonical path: "/" for the filesystem root.
RealStr(p) == IF p = <<>> THEN <<"/">> ELSE PathStr(p)

\* String.prototype.startsWith
StartsWith(s, t) == IsPrefix(t, s)

(***************************************************************************)
(* Lexical path operations of Node's path module and of strip-dirs.        *)
(* A relative or absolute path is the sequence of its segments, as         *)
(* String.split('/') gives them: a trailing slash is a last Empty segment. *)
(***************************************************************************)
HasTrailingSlash(p) == p # <<>> /\ Last(p) = Empty

\* normalizeString(path, allowAboveRoot = false): the segments of an absolute path.
RECURSIVE NormAbs(_, _)
NormAbs(acc, rest) ==
  IF rest = <<>> THEN acc
  ELSE LET t == Head(rest) IN
       IF t = Empty \/ t = Dot THEN NormAbs(acc, Tail(rest))
       ELSE IF t = DotDot
            THEN NormAbs(IF acc = <<>> THEN acc ELSE Front(acc), Tail(rest))
            ELSE NormAbs(Append(acc, t), Tail(rest))

\* normalizeString(path, allowAboveRoot = true): the segments of a relative path.
RECURSIVE NormRel(_, _)
NormRel(acc, rest) ==
  IF rest = <<>> THEN acc
  ELSE LET t == Head(rest) IN
       IF t = Empty \/ t = Dot THEN NormRel(acc, Tail(rest))
       ELSE IF t = DotDot
            THEN NormRel(IF acc = <<>> \/ Last(acc) = DotDot
                         THEN Append(acc, t) ELSE Front(acc), Tail(rest))
            ELSE NormRel(Append(acc, t), Tail(rest))

\* path.normalize of a relative path: "." when nothing is left, the trailing
\* slash kept.
normalize(p) ==
  LET n == NormRel(<<>>, p)
      m == IF n = <<>> THEN <<Dot>> ELSE n
  IN IF HasTrailingSlash(p) THEN Append(m, Empty) ELSE m

\* path.join(output, p) for an absolute output: the trailing slash is kept unless
\* the result is the filesystem root.
join(output, p) ==
  LET n == NormAbs(<<>>, output \o p)
  IN IF HasTrailingSlash(p) /\ n # <<>> THEN Append(n, Empty) ELSE n

\* path.join of relative segments: empty arguments are skipped.
joinRel(segs) ==
  LET n == NormRel(<<>>, segs) IN IF n = <<>> THEN <<Dot>> ELSE n

RECURSIVE StripSlashes(_)
StripSlashes(p) == IF HasTrailingSlash(p) THEN StripSlashes(Front(p)) ELSE p

\* path.dirname of an absolute path.
dirname(p) ==
  LET q == StripSlashes(p) IN IF q = <<>> THEN <<>> ELSE Front(q)

\* Stripping the segments of the path as given, without normalising it first.
stripDirsRaw(p, count) == joinRel(Drop(p, count))

\* strip-dirs: the path is normalised and split, a leading "." dropped, the
\* count capped at one less than the number of segments, the rest joined.
stripDirs(p, count) ==
  LET c0 == normalize(p)
      comps == IF Len(c0) > 1 /\ c0[1] = Dot THEN Tail(c0) ELSE c0
      c == IF count > Len(comps) - 1 THEN Len(comps) - 1 ELSE count
  IN joinRel(Drop(comps, c))

(***************************************************************************)
(* The filesystem: fs maps each existing canonical path to its inode       *)
(* number, inodes maps an inode number to its kind, content, modification  *)
(* time and (for a symbolic link) stored target.                           *)
(***************************************************************************)
NoTarget == [abs |-> FALSE, segs |-> <<>>]

Target(abs, segs) == [abs |-> abs, segs |-> segs]

DirNode == [kind |-> "dir", data |-> <<>>, mtime |-> 0, target |-> NoTarget]

FileNode(data, mtime) ==
  [kind |-> "file", data |-> data, mtime |-> mtime, target |-> NoTarget]

LinkNode(target) ==
  [kind |-> "symlink", data |-> <<>>, mtime |-> 0, target |-> target]

Exists(p) == p \in DOMAIN fs

Kind(p) == inodes[fs[p]].kind

Parent(p) == IF p = <<>> THEN <<>> ELSE Front(p)

NextIno == Cardinality(DOMAIN inodes) + 1

Ok(p, exists) == [ok |-> TRUE, path |-> p, exists |-> exists, err |-> "none"]

Err(e) == [ok |-> FALSE, path |-> <<>>, exists |-> FALSE, err |-> e]

\* Path resolution from the directory cur along the segments rest.  mode is
\* "follow" (every symbolic link followed), "nofollow" (a symbolic link in last
\* position is the result) or "create" (as follow, and a missing last segment
\* is the place a new file gets).  hops symbolic links may still be followed.
RECURSIVE Walk(_, _, _, _)
Walk(cur, rest, hops, mode) ==
  IF rest = <<>> THEN Ok(cur, TRUE)
  ELSE IF Kind(cur) # "dir" THEN Err("ENOTDIR")
  ELSE LET t == Head(rest)
           r == Tail(rest)
           q == Append(cur, t)
       IN IF t = Empty \/ t = Dot THEN Walk(cur, r, hops, mode)
          ELSE IF t = DotDot THEN Walk(Parent(cur), r, hops, mode)
          ELSE IF ~Exists(q)
               THEN IF r = <<>> /\ mode = "create" THEN Ok(q, FALSE)
                    ELSE Err("ENOENT")
          ELSE IF Kind(q) = "symlink"
               THEN IF r = <<>> /\ mode = "nofollow" THEN Ok(q, TRUE)
                    ELSE IF hops = 0 THEN Err("ELOOP")
                    ELSE LET tg == inodes[fs[q]].target
                         IN Walk(IF tg.abs THEN <<>> ELSE cur, tg.segs \o r,
                                 hops - 1, mode)
          ELSE Walk(q, r, hops, mode)

\* fs.realpath
realpath(p) == Walk(<<>>, p, MaxHops, "follow")

\* fs.readlink: fails unless p names a symbolic link; gives its stored target.
readlink(p) ==
  LET w == Walk(<<>>, p, MaxHops, "nofollow")
  IN IF w.ok /\ Kind(w.path) = "symlink"
     THEN [ok |-> TRUE, target |-> inodes[fs[w.path]].target]
     ELSE [ok |-> FALSE, target |-> NoTarget]

\* mkdir(2) without the recursive flag: an existing path is an error.
mkdirStrict(p) ==
  IF p # <<>> /\ Exists(Front(p)) /\ Kind(Front(p)) = "dir" /\ ~Exists(p)
  THEN [ok |-> TRUE, dirs |-> <<p>>] ELSE [ok |-> FALSE, dirs |-> <<>>]

\* fs-extra mkdirs: the directories (canonical paths, outermost first) to be
\* created so that every segment of p is a directory; an existing segment may be
\* a symbolic link to a directory.
RECURSIVE MkWalk(_, _, _)
MkWalk(cur, rest, acc) ==
  IF rest = <<>> THEN [ok |-> TRUE, dirs |-> acc]
  ELSE LET t == Head(rest)
           r == Tail(rest)
           q == Append(cur, t)
       IN IF t = Empty \/ t = Dot THEN MkWalk(cur, r, acc)
          ELSE IF t = DotDot THEN MkWalk(Parent(cur), r, acc)
          ELSE IF ~Exists(q) THEN MkWalk(q, r, Append(acc, q))
          ELSE LET w == Walk(cur, <<t>>, MaxHops, "follow")
               IN IF w.ok /\ Kind(w.path) = "dir" THEN MkWalk(w.path, r, acc)
                  ELSE [ok |-> FALSE, dirs |-> <<>>]

mkdirs(p) == MkWalk(<<>>, p, <<>>)

\* Whether a JavaScript string is truthy: it is not the empty string.
Truthy(target) == target.abs \/ target.segs # <<>>

Range(s) == {s[i] : i \in 1..Len(s)}

IndexOf(s, x) == CHOOSE i \in 1..Len(s) : s[i] = x

\* The filesystem with the directories dirs (outermost first) created.
FsWithDirs(dirs) ==
  [q \in DOMAIN fs \cup Range(dirs) |->
     IF q \in DOMAIN fs THEN fs[q] ELSE NextIno + IndexOf(dirs, q) - 1]

InodesWithDirs(dirs) ==
  [i \in 1..(NextIno - 1 + Len(dirs)) |->
     IF i < NextIno THEN inodes[i] ELSE DirNode]

\* The filesystem with one new name q for inode i, and with a new inode.
FsWith(q, i) == [x \in DOMAIN fs \cup {q} |-> IF x = q THEN i ELSE fs[x]]

InodesWith(node) ==
  [i \in 1..NextIno |-> IF i < NextIno THEN inodes[i] ELSE node]

(***************************************************************************)
(* Entries, streams and options.                                           *)
(***************************************************************************)
Output == <<nO>>

NoLink == NoTarget

Entry(path, type, mtime, linkname) ==
  [path |-> path, type |-> type, mtime |-> mtime, linkname |-> linkname]

NoInput == [present |-> FALSE, data |-> <<>>, pos |-> 0, state |-> "none", fails |-> FALSE]

\* A Readable is created paused; resume() makes it flow (its data is discarded
\* when nothing listens), pipeline() pipes it into the destination.
Stream(data) ==
  [present |-> TRUE, data |-> data, pos |-> 0, state |-> "paused", fails |-> FALSE]

\* A stream that may emit 'error' instead of its next chunk or its end.
FailingStream(data) == [Stream(data) EXCEPT !.fails = TRUE]

Opts(strip, filter, map) == [strip |-> strip, filter |-> filter, map |-> map]

NoOpts == Opts(0, "none", "none")

\* The filter predicates of the model: "notF" is the test suite's
\* file.path !== 'test1.bin', for the path f.
filterFn(id, file) ==
  CASE id = "all" -> TRUE
    [] id = "notF" -> file.path # <<nF>>
    [] OTHER -> TRUE

\* The maps of the model: "prefix" is the test suite's unicorn- prefix (it
\* changes the entry in place and returns it), "escape" returns a new entry
\* whose path leaves the root, "same" returns the entry unchanged.
mapFn(id, file) ==
  CASE id = "prefix" ->
         [file EXCEPT !.path = IF file.path = <<>> THEN <<<<"u">>>>
                                ELSE <<<<"u">> \o Head(file.path)>> \o Tail(file.path)]
    [] id = "escape" -> [file EXCEPT !.path = <<DotDot, nE, nN>>]
    [] OTHER -> file

MapInPlace(id) == id \in {"prefix", "same"}

NoSaw == [called |-> FALSE, path |-> <<>>]

Saw(path) == [called |-> TRUE, path |-> path]

IdleCall ==
  [pc |-> "idle", num |-> 0, orig |-> Entry(<<>>, "file", 0, NoLink),
   entry |-> Entry(<<>>, "file", 0, NoLink), file |-> Entry(<<>>, "file", 0, NoLink),
   input |-> NoInput, opts |-> NoOpts, dest |-> <<>>, realOutputPath |-> <<>>,
   stack |-> <<>>, realParentPath |-> <<>>, fd |-> 0, opened |-> <<>>, result |-> "none",
   filterSaw |-> NoSaw, mapSaw |-> NoSaw]

Procs == {1, 2}

Put(p, c) == calls' = [calls EXCEPT ![p] = c]

\* The call returns (result "ok") or throws (any other result).
Finish(c, result) == [c EXCEPT !.pc = "done", !.result = result]

\* A record of one mutation of the filesystem: the call that made it, the system
\* call, the canonical path it acted on and the inode it made or changed.
Logged(p, op, path, ino) ==
  [call |-> calls[p].num, op |-> op, path |-> path, ino |-> ino]

FsSame == UNCHANGED <<fs, inodes, log, links>>

\* What no step of a call changes; returns is changed by SmdReturn alone.
Env == UNCHANGED <<platform, ncalls, fs0, inodes0>>

Frame == Env /\ UNCHANGED returns

(***************************************************************************)
(* write(file, input, output, opts), lines 64-120, one action per step.    *)
(***************************************************************************)
\* The caller invokes write with one entry of es and one option record of os;
\* max calls are made in all.
Start(p, es, os, max) ==
  /\ calls[p].pc \in {"idle", "done"}
  /\ ncalls < max
  /\ \E e \in es, o \in os :
       Put(p, [IdleCall EXCEPT !.pc = "strip", !.num = ncalls + 1,
                               !.orig = e.file, !.entry = e.file,
                               !.file = e.file, !.input = e.input, !.opts = o])
  /\ ncalls' = ncalls + 1
  /\ UNCHANGED <<fs, inodes, log, links, returns, platform, fs0, inodes0>>

\* Lines 65-69: file.path = stripDirs(file.path, strip), on the caller's object.
Strip(p) ==
  LET c == calls[p]
      np == stripDirs(c.file.path, c.opts.strip)
      d == [c EXCEPT !.file.path = np, !.entry.path = np]
  IN /\ c.pc = "strip"
     /\ IF c.opts.strip > 0
        THEN IF np = <<Dot>> THEN Put(p, Finish(d, "ok"))
             ELSE Put(p, [d EXCEPT !.pc = "filter"])
        ELSE Put(p, [c EXCEPT !.pc = "filter"])
     /\ FsSame /\ Frame

\* As Filter, but a rejected entry's stream is left as it is.
FilterNoResume(p) ==
  LET c == calls[p] IN
  /\ c.pc = "filter"
  /\ IF c.opts.filter # "none" /\ ~filterFn(c.opts.filter, c.file)
     THEN Put(p, Finish([c EXCEPT !.filterSaw = Saw(c.file.path)], "ok"))
     ELSE Put(p, [c EXCEPT !.pc = "map",
                           !.filterSaw = IF c.opts.filter # "none"
                                         THEN Saw(c.file.path) ELSE @])
  /\ FsSame /\ Frame

\* Lines 71-76: a rejected entry's stream is resumed and the call returns.
Filter(p) ==
  LET c == calls[p] IN
  /\ c.pc = "filter"
  /\ IF c.opts.filter # "none"
     THEN LET d == [c EXCEPT !.filterSaw = Saw(c.file.path)] IN
          IF ~filterFn(c.opts.filter, c.file)
          THEN Put(p, Finish([d EXCEPT !.input.state =
                                IF c.input.present THEN "flowing" ELSE @], "ok"))
          ELSE Put(p, [d EXCEPT !.pc = "map"])
     ELSE Put(p, [c EXCEPT !.pc = "map"])
  /\ FsSame /\ Frame

\* Lines 78-80: file = opts.map(file).
Map(p) ==
  LET c == calls[p]
      m == mapFn(c.opts.map, c.file)
  IN /\ c.pc = "map"
     /\ IF c.opts.map # "none"
        THEN Put(p, [c EXCEPT !.pc = "join", !.mapSaw = Saw(c.file.path),
                              !.file = m,
                              !.entry = IF MapInPlace(c.opts.map) THEN m ELSE @])
        ELSE Put(p, [c EXCEPT !.pc = "join"])
     /\ FsSame /\ Frame

\* As ComputeDest, but from the path the entry had before map.
ComputeDestUnmapped(p) ==
  LET c == calls[p] IN
  /\ c.pc = "join"
  /\ Put(p, [c EXCEPT !.pc = "mkdirsOutput",
                      !.dest = join(Output, IF c.mapSaw.called THEN c.mapSaw.path
                                            ELSE c.file.path)])
  /\ FsSame /\ Frame

\* Lines 82-83: dest = join(output, file.path).
ComputeDest(p) ==
  LET c == calls[p] IN
  /\ c.pc = "join"
  /\ Put(p, [c EXCEPT !.pc = "mkdirsOutput", !.dest = join(Output, c.file.path)])
  /\ FsSame /\ Frame

\* A call of mkdirs(dir) by process p: the step's effect on the filesystem, and
\* the call's next state (ok) or an I/O error.  The missing directories are
\* made one mkdir(2) at a time, outermost first; one found existing is no error.
DoMkdirs(p, dir, ok) ==
  \E m \in {mkdirs(dir)} :
  \E made \in {IF m.ok /\ Len(m.dirs) > 1 THEN <<Head(m.dirs)>> ELSE m.dirs} :
  \E made_fs \in {FsWithDirs(made)} :
    IF m.ok
    THEN /\ fs' = made_fs
         /\ inodes' = InodesWithDirs(made)
         /\ log' = log \cup {Logged(p, "mkdir", q, made_fs[q]) : q \in Range(made)}
         /\ Put(p, IF Len(m.dirs) > 1 THEN calls[p] ELSE ok)
         /\ UNCHANGED links
    ELSE /\ Put(p, Finish(calls[p], "IO"))
         /\ FsSame

\* Line 85: await mkdirs(output).
MkdirsOutput(p) ==
  LET c == calls[p] IN
  /\ c.pc = "mkdirsOutput"
  /\ DoMkdirs(p, Output, [c EXCEPT !.pc = "realpathOutput"])
  /\ Frame

\* Lines 86-95: realOutputPath = await realpath(output), then safeMakeDir is
\* entered: on dest for a directory, on dirname(dest) for any other entry.
RealpathOutput(p) ==
  LET c == calls[p]
      r == realpath(Output)
  IN /\ c.pc = "realpathOutput"
     /\ IF r.ok
        THEN Put(p, [c EXCEPT !.pc = "smdRealpath",
                              !.realOutputPath = RealStr(r.path),
                              !.stack = IF c.file.type = "directory"
                                        THEN <<c.dest>> ELSE <<dirname(c.dest)>>])
        ELSE Put(p, Finish(c, "IO"))
     /\ FsSame /\ Frame

(***************************************************************************)
(* safeMakeDir(dir, realOutputPath), lines 30-45.  stack holds the dir of  *)
(* every active recursive call, the innermost first.                       *)
(***************************************************************************)
\* As SmdRealpath, but a target directory that exists already is an error.
SmdRealpathFresh(p) ==
  LET c == calls[p]
      dir == Head(c.stack)
      r == realpath(dir)
  IN /\ c.pc = "smdRealpath"
     /\ IF r.ok
        THEN IF Len(c.stack) = 1 /\ dir # Output THEN Put(p, Finish(c, "IO"))
             ELSE Put(p, [c EXCEPT !.pc = "smdCheck", !.realParentPath = RealStr(r.path)])
        ELSE Put(p, [c EXCEPT !.stack = <<dirname(dir)>> \o @])
     /\ FsSame /\ Frame

\* As SmdRealpath, but the recursion is on dir itself, not on its parent.
SmdRealpathRetry(p) ==
  LET c == calls[p]
      dir == Head(c.stack)
      r == realpath(dir)
  IN /\ c.pc = "smdRealpath"
     /\ IF r.ok
        THEN Put(p, [c EXCEPT !.pc = "smdCheck", !.realParentPath = RealStr(r.path)])
        ELSE Put(p, [c EXCEPT !.stack = <<dir>> \o @])
     /\ FsSame /\ Frame

\* Lines 32-37: realParentPath = await realpath(dir); when that throws, the
\* function calls itself on dirname(dir).
SmdRealpath(p) ==
  LET c == calls[p]
      dir == Head(c.stack)
      r == realpath(dir)
  IN /\ c.pc = "smdRealpath"
     /\ IF r.ok
        THEN Put(p, [c EXCEPT !.pc = "smdCheck", !.realParentPath = RealStr(r.path)])
        ELSE Put(p, [c EXCEPT !.stack = <<dirname(dir)>> \o @])
     /\ FsSame /\ Frame

\* Lines 39-41: if (!realParentPath.startsWith(realOutputPath)) throw.
SmdCheck(p) ==
  LET c == calls[p] IN
  /\ c.pc = "smdCheck"
  /\ IF ~StartsWith(c.realParentPath, c.realOutputPath)
     THEN Put(p, Finish(c, "Escape"))
     ELSE Put(p, [c EXCEPT !.pc = "smdMkdirs"])
  /\ FsSame /\ Frame

\* Line 43: await mkdirs(dir).
SmdMkdirs(p) ==
  LET c == calls[p] IN
  /\ c.pc = "smdMkdirs"
  /\ DoMkdirs(p, Head(c.stack), [c EXCEPT !.pc = "smdReturn"])
  /\ Frame

\* A record of one return of safeMakeDir: the call of write it belongs to, its
\* argument dir, the canonical path returned and the depth of the recursion.
Returned(c, dir, path) ==
  [call |-> c.num, dir |-> dir, path |-> path, depth |-> Len(c.stack)]

\* Line 44: return await realpath(dir), to the calling safeMakeDir (line 36) or
\* to write (line 89 or 95).
SmdReturn(p) ==
  LET c == calls[p]
      r == realpath(Head(c.stack))
      rest == Tail(c.stack)
  IN /\ c.pc = "smdReturn"
     /\ IF ~r.ok THEN Put(p, Finish(c, "IO")) /\ UNCHANGED returns
        ELSE /\ returns' = returns \cup {Returned(c, Head(c.stack), r.path)}
             /\ IF rest # <<>>
                THEN Put(p, [c EXCEPT !.pc = "smdCheck", !.stack = rest,
                                      !.realParentPath = RealStr(r.path)])
                ELSE Put(p, [c EXCEPT !.stack = rest,
                                      !.pc = CASE c.file.type = "directory" -> "utimesDir"
                                               [] c.file.type = "file" -> "guard"
                                               [] OTHER -> "recheck"])
     /\ FsSame /\ Env

\* fs.utimes(path, now, mtime) by process p, then the call goes on as ok.
DoUtimes(p, path, mtime, ok) ==
  LET w == realpath(path) IN
  IF w.ok
  THEN /\ inodes' = [inodes EXCEPT ![fs[w.path]].mtime = mtime]
       /\ log' = log \cup {Logged(p, "utimes", w.path, fs[w.path])}
       /\ Put(p, ok)
       /\ UNCHANGED <<fs, links>>
  ELSE /\ Put(p, Finish(calls[p], "IO"))
       /\ FsSame

\* Lines 90-91: await utimes(dest, now, new Date(file.mtime)); return.
UtimesDir(p) ==
  LET c == calls[p] IN
  /\ c.pc = "utimesDir"
  /\ DoUtimes(p, c.dest, c.file.mtime, Finish(c, "ok"))
  /\ Frame

\* preventWritingThroughSymlink(destination), lines 47-62: the call throws when
\* readlink succeeds with a truthy string.
preventWritingThroughSymlink(destination) ==
  LET l == readlink(destination) IN ~(l.ok /\ Truthy(l.target))

\* Lines 97-99.
Guard(p) ==
  LET c == calls[p] IN
  /\ c.pc = "guard"
  /\ IF preventWritingThroughSymlink(c.dest)
     THEN Put(p, [c EXCEPT !.pc = "recheck"])
     ELSE Put(p, Finish(c, "SymlinkWriteThrough"))
  /\ FsSame /\ Frame

\* As Recheck, but a File entry is opened whether or not a stream was given.
RecheckOpenAlways(p) ==
  LET c == calls[p]
      r == realpath(dirname(c.dest))
  IN /\ c.pc = "recheck"
     /\ IF ~r.ok THEN Put(p, Finish(c, "IO"))
        ELSE IF ~StartsWith(RealStr(r.path), c.realOutputPath)
        THEN Put(p, Finish(c, "Escape"))
        ELSE IF c.file.type = "link" \/ (c.file.type = "symlink" /\ platform = "win32")
        THEN Put(p, [c EXCEPT !.pc = "link"])
        ELSE IF c.file.type = "symlink" THEN Put(p, [c EXCEPT !.pc = "symlink"])
        ELSE Put(p, [c EXCEPT !.pc = "open"])
     /\ FsSame /\ Frame

\* Lines 101-116: realDestinationDir = await realpath(dirname(dest)), the second
\* containment check, and the choice of the mutation by the entry's type.
Recheck(p) ==
  LET c == calls[p]
      r == realpath(dirname(c.dest))
  IN /\ c.pc = "recheck"
     /\ IF ~r.ok THEN Put(p, Finish(c, "IO"))
        ELSE IF ~StartsWith(RealStr(r.path), c.realOutputPath)
        THEN Put(p, Finish(c, "Escape"))
        ELSE IF c.file.type = "link" \/ (c.file.type = "symlink" /\ platform = "win32")
        THEN Put(p, [c EXCEPT !.pc = "link"])
        ELSE IF c.file.type = "symlink" THEN Put(p, [c EXCEPT !.pc = "symlink"])
        ELSE IF c.file.type = "file" /\ c.input.present
        THEN Put(p, [c EXCEPT !.pc = "open"])
        ELSE Put(p, Finish(c, "ok"))
     /\ FsSame /\ Frame

\* The place a new directory entry named by the path dst gets: its resolved
\* parent directory and its last segment; nothing may exist there yet.
NewName(dst) ==
  LET d == realpath(dirname(dst))
      q == Append(d.path, Last(dst))
  IN IF dst # <<>> /\ ~HasTrailingSlash(dst) /\ d.ok /\ Kind(d.path) = "dir"
        /\ ~Exists(q)
     THEN Ok(q, FALSE) ELSE Err("EEXIST")

\* A copy of the existing file under the new name: what link(2) does not do.
CopyAs(newpath, existing) ==
  /\ fs' = FsWith(newpath, NextIno)
  /\ inodes' = InodesWith(inodes[fs[existing]])

\* link(2): the new name denotes the inode of the existing path.
LinkAs(newpath, existing) ==
  /\ fs' = FsWith(newpath, fs[existing])
  /\ UNCHANGED inodes

\* Lines 107 and 110: await link(join(output, file.linkname), dest).  The
\* existing path is resolved without following a symbolic link in last position.
Link(p) ==
  LET c == calls[p]
      src == Walk(<<>>, join(Output, c.file.linkname.segs), MaxHops, "nofollow")
      dst == NewName(c.dest)
  IN /\ c.pc = "link"
     /\ IF src.ok /\ dst.ok /\ Kind(src.path) # "dir"
        THEN /\ LinkAs(dst.path, src.path)
             /\ log' = log \cup {Logged(p, "link", dst.path, fs[src.path])}
             /\ links' = links \cup {[call |-> c.num, type |-> c.file.type,
                                      dest |-> c.dest,
                                      existing |-> join(Output, c.file.linkname.segs),
                                      src |-> src.path, ino |-> fs[src.path]]}
             /\ Put(p, Finish(c, "ok"))
        ELSE /\ Put(p, Finish(c, "IO"))
             /\ FsSame
     /\ Frame

\* Whether symlink(2) stores the target: an empty target is refused except
\* where the platform keeps empty symbolic links.
symlinkAccepts(target) == Truthy(target) \/ platform = "sunos"

\* As Symlink, but the stored target is the link name joined with the root.
SymlinkJoined(p) ==
  LET c == calls[p]
      dst == NewName(c.dest)
  IN /\ c.pc = "symlink"
     /\ IF dst.ok /\ symlinkAccepts(c.file.linkname)
        THEN /\ fs' = FsWith(dst.path, NextIno)
             /\ inodes' = InodesWith(LinkNode(Target(TRUE, join(Output, c.file.linkname.segs))))
             /\ log' = log \cup {Logged(p, "symlink", dst.path, NextIno)}
             /\ Put(p, Finish(c, "ok"))
             /\ UNCHANGED links
        ELSE /\ Put(p, Finish(c, "IO"))
             /\ FsSame
     /\ Frame

\* Line 112: await symlink(file.linkname, dest).
Symlink(p) ==
  LET c == calls[p]
      dst == NewName(c.dest)
  IN /\ c.pc = "symlink"
     /\ IF dst.ok /\ symlinkAccepts(c.file.linkname)
        THEN /\ fs' = FsWith(dst.path, NextIno)
             /\ inodes' = InodesWith(LinkNode(c.file.linkname))
             /\ log' = log \cup {Logged(p, "symlink", dst.path, NextIno)}
             /\ Put(p, Finish(c, "ok"))
             /\ UNCHANGED links
        ELSE /\ Put(p, Finish(c, "IO"))
             /\ FsSame
     /\ Frame

Min(a, b) == IF a < b THEN a ELSE b

\* What opening with flags 'w' (O_TRUNC) leaves of an existing file.
KeepContent(node) == node

Truncated(node) == [node EXCEPT !.data = <<>>, !.mtime = 0]

\* Line 117, createWriteStream(dest, { mode }): the destination is opened with
\* flags 'w', which follows symbolic links, creates a missing file and
\* truncates an existing one.
Open(p) ==
  LET c == calls[p]
      w == Walk(<<>>, c.dest, MaxHops, "create")
      piped == [c EXCEPT !.pc = "write", !.input.state = "piped"]
  IN /\ c.pc = "open"
     /\ IF w.ok /\ ~w.exists
        THEN /\ fs' = FsWith(w.path, NextIno)
             /\ inodes' = InodesWith(FileNode(<<>>, 0))
             /\ log' = log \cup {Logged(p, "create", w.path, NextIno)}
             /\ Put(p, [piped EXCEPT !.fd = NextIno, !.opened = w.path])
             /\ UNCHANGED links
        ELSE IF w.ok /\ Kind(w.path) = "file"
        THEN /\ inodes' = [inodes EXCEPT ![fs[w.path]] = Truncated(@)]
             /\ log' = log \cup {Logged(p, "truncate", w.path, fs[w.path])}
             /\ Put(p, [piped EXCEPT !.fd = fs[w.path], !.opened = w.path])
             /\ UNCHANGED <<fs, links>>
        ELSE /\ Put(p, Finish(c, "IO"))
             /\ FsSame
     /\ Frame


\* The content of a file after chunk is written at offset pos.
RECURSIVE Zeros(_)
Zeros(n) == IF n <= 0 THEN <<>> ELSE <<0>> \o Zeros(n - 1)

WriteAt(data, pos, chunk) ==
  SubSeq(data, 1, Min(pos, Len(data))) \o Zeros(pos - Len(data)) \o chunk
    \o SubSeq(data, pos + Len(chunk) + 1, Len(data))

\* One chunk of the stream is written to the open file.
WriteChunk(p) ==
  LET c == calls[p]
      left == Len(c.input.data) - c.input.pos
  IN IF left = 0
     THEN /\ Put(p, [c EXCEPT !.pc = "utimesFile", !.input.state = "ended"])
          /\ FsSame
     ELSE \E n \in 1..Min(left, MaxChunk) :
            /\ inodes' = [inodes EXCEPT
                 ![c.fd].data = WriteAt(@, c.input.pos,
                                        SubSeq(c.input.data, c.input.pos + 1,
                                               c.input.pos + n)),
                 ![c.fd].mtime = 0]
            /\ log' = log \cup {Logged(p, "write", c.opened, c.fd)}
            /\ Put(p, [c EXCEPT !.input.pos = @ + n])
            /\ UNCHANGED <<fs, links>>

\* As Write, but a stream error removes the file that was being written.
WriteUnlink(p) ==
  LET c == calls[p] IN
  /\ c.pc = "write"
  /\ \/ WriteChunk(p)
     \/ /\ c.input.fails
        /\ Put(p, Finish([c EXCEPT !.input.state = "errored"], "IO"))
        /\ fs' = [q \in DOMAIN fs \ {c.opened} |-> fs[q]]
        /\ UNCHANGED <<inodes, log, links>>
  /\ Frame

\* Line 117, pipeline(input, ...): the stream's next chunk is written to the
\* open file and after the last chunk the file is closed; when the stream emits
\* 'error', pipeline destroys both streams and rejects, and write throws with the
\* file left as it is.
Write(p) ==
  LET c == calls[p] IN
  /\ c.pc = "write"
  /\ \/ WriteChunk(p)
     \/ /\ c.input.fails
        /\ Put(p, Finish([c EXCEPT !.input.state = "errored"], "IO"))
        /\ FsSame
  /\ Frame

\* Line 118: await utimes(dest, now, new Date(file.mtime)).
UtimesFile(p) ==
  LET c == calls[p] IN
  /\ c.pc = "utimesFile"
  /\ DoUtimes(p, c.dest, c.file.mtime, Finish(c, "ok"))
  /\ Frame

(***************************************************************************)
(* Initial filesystems.  The output root is /o; /ox is a directory beside  *)
(* it whose name begins with the root's name, /e another one, holding the  *)
(* file /e/s.  Fixture is the tree the test suite builds under the root.   *)
(***************************************************************************)
At(path, node) == [path |-> path, node |-> node]

Outside ==
  << At(<<>>, DirNode), At(<<nE>>, DirNode), At(<<nE, nS>>, FileNode(<<7>>, 5)),
     At(<<nOx>>, DirNode) >>

Rooted == Outside \o << At(<<nO>>, DirNode) >>

Fixture ==
  Rooted \o
  << At(<<nO, nG>>, DirNode),
     At(<<nO, nG, nP>>, LinkNode(Target(FALSE, <<DotDot, Empty>>))),
     At(<<nO, nR>>, LinkNode(Target(TRUE, <<>>))),
     At(<<nO, nL>>, LinkNode(Target(TRUE, <<nE, nS>>))),
     At(<<nO, nC>>, LinkNode(Target(FALSE, <<nL>>))),
     At(<<nO, nF>>, FileNode(<<9, 9, 9>>, 5)) >>

EmptyLink == Rooted \o << At(<<nO, nZ>>, LinkNode(Target(FALSE, <<>>))) >>

TreeFs(t) == [q \in {t[i].path : i \in 1..Len(t)} |->
                CHOOSE i \in 1..Len(t) : t[i].path = q]

TreeInodes(t) == [i \in 1..Len(t) |-> t[i].node]

\* process.platform and the tree found at the start.
Worlds ==
  { [platform |-> "linux", tree |-> Outside],
    [platform |-> "linux", tree |-> Fixture],
    [platform |-> "win32", tree |-> Fixture],
    [platform |-> "sunos", tree |-> EmptyLink] }

InitIn(worlds) ==
  /\ \E w \in worlds :
       /\ platform = w.platform
       /\ fs = TreeFs(w.tree)
       /\ inodes = TreeInodes(w.tree)
  /\ fs0 = fs
  /\ inodes0 = inodes
  /\ calls = [p \in Procs |-> IdleCall]
  /\ ncalls = 0
  /\ log = {}
  /\ links = {}
  /\ returns = {}

Init == InitIn(Worlds)

(***************************************************************************)
(* The entries the driver hands over.                                      *)
(***************************************************************************)
Rel(segs) == Target(FALSE, segs)

Abs(segs) == Target(TRUE, segs)

File(path, data, mtime) ==
  [file |-> Entry(path, "file", mtime, NoLink), input |-> Stream(data)]

Directory(path, mtime) ==
  [file |-> Entry(path, "directory", mtime, NoLink), input |-> NoInput]

\* A File entry whose stream may fail, and one handed over with input = null.
FailingFile(path, data, mtime) ==
  [file |-> Entry(path, "file", mtime, NoLink), input |-> FailingStream(data)]

FileNoInput(path, mtime) ==
  [file |-> Entry(path, "file", mtime, NoLink), input |-> NoInput]

HardLink(path, linkname) ==
  [file |-> Entry(path, "link", 1, linkname), input |-> NoInput]

SymLink(path, linkname) ==
  [file |-> Entry(path, "symlink", 1, linkname), input |-> NoInput]

Entries ==
  { File(<<nF>>, <<1, 2>>, 1),
    File(<<nA, nN>>, <<3>>, 2),
    File(<<DotDot, nE, nN>>, <<4>>, 1),
    File(<<DotDot, nOx, nN>>, <<4>>, 1),
    File(<<nG, nP, nG, nP, nR, nE, nN>>, <<4>>, 1),
    File(<<nG, nP, nL>>, <<4>>, 1),
    File(<<nG, nP, nC>>, <<4>>, 1),
    File(<<nZ>>, <<4>>, 1),
    File(<<nH>>, <<>>, 2),
    File(<<nK>>, <<4>>, 1),
    FailingFile(<<nA, nN>>, <<1, 2>>, 3),
    FileNoInput(<<nA, nN>>, 3),
    FileNoInput(<<nL>>, 3),
    Directory(<<nA>>, 2),
    Directory(<<nK, nD>>, 1),
    Directory(<<DotDot, nOx, nD>>, 1),
    HardLink(<<nH>>, Rel(<<nF>>)),
    HardLink(<<nH>>, Rel(<<DotDot, nE, nS>>)),
    SymLink(<<nK>>, Abs(<<nE, nS>>)),
    SymLink(<<nK>>, Rel(<<DotDot, nE>>)),
    SymLink(<<nK>>, Rel(<<>>)),
    SymLink(<<nK>>, Rel(<<nF>>)) }

Step(p) ==
  \/ Strip(p) \/ Filter(p) \/ Map(p) \/ ComputeDest(p)
  \/ MkdirsOutput(p) \/ RealpathOutput(p)
  \/ SmdRealpath(p) \/ SmdCheck(p) \/ SmdMkdirs(p) \/ SmdReturn(p)
  \/ UtimesDir(p) \/ Guard(p) \/ Recheck(p)
  \/ Link(p) \/ Symlink(p) \/ Open(p) \/ Write(p) \/ UtimesFile(p)

\* The driver hands the entries over one after the other.
Next == Start(1, Entries, {NoOpts}, MaxCalls) \/ Step(1)

Spec == Init /\ [][Next]_vars

\* Every await of a call is resumed once its filesystem operation has
\* completed: a call that can take a step takes it.
NextLive == Start(1, Entries, {NoOpts}, MaxLiveCalls) \/ Step(1)

SpecLive == Init /\ [][NextLive]_vars /\ WF_vars(Step(1))

(***************************************************************************)
(* The driver with options: strip, filter and map in the combinations the  *)
(* option record allows, on entries of every kind, some of them handed     *)
(* over with a stream although they are no files.                          *)
(***************************************************************************)
WithStream(e, data) == [e EXCEPT !.input = Stream(data)]

OptEntries ==
  { File(<<nA, nB, nN>>, <<1, 2>>, 1),
    File(<<nA, nA, nN>>, <<3>>, 2),
    File(<<nB, DotDot, nA, nN>>, <<3>>, 1),
    File(<<nA, nF>>, <<4>>, 1),
    File(<<nF>>, <<1, 2>>, 2),
    File(<<nA>>, <<4>>, 1),
    File(<<nA, Empty>>, <<4>>, 1),
    Directory(<<nA, Empty>>, 2),
    WithStream(Directory(<<nD>>, 1), <<5>>),
    WithStream(HardLink(<<nH>>, Rel(<<nF>>)), <<5>>),
    WithStream(SymLink(<<nK>>, Rel(<<nF>>)), <<5>>) }

OptSets ==
  { Opts(s, f, m) : s \in {0, 1, 2}, f \in {"none", "all", "notF"},
                    m \in {"none", "prefix", "escape"} }

OptWorlds ==
  { [platform |-> "linux", tree |-> Outside],
    [platform |-> "linux", tree |-> Fixture] }

InitOpts == InitIn(OptWorlds)

NextOpts == Start(1, OptEntries, OptSets, MaxOptCalls) \/ Step(1)

SpecOpts == InitOpts /\ [][NextOpts]_vars

(***************************************************************************)
(* Two calls of write in flight at once on the same output root: the       *)
(* driver does not await the first before it makes the second, and the     *)
(* steps of the two calls interleave at every await.                       *)
(***************************************************************************)
ConcEntries ==
  { File(<<nA, nB, nN>>, <<1, 2>>, 1),
    File(<<nA, nB, nF>>, <<3>>, 2),
    File(<<nA, nN>>, <<4>>, 1),
    Directory(<<nA, nB>>, 2),
    HardLink(<<nA, nH>>, Rel(<<nF>>)),
    SymLink(<<nA, nB, nK>>, Rel(<<nF>>)) }

\* Two entries are handed over together when their destinations differ and
\* neither is a file, link or symlink placed where the other needs a directory.
Compatible(a, b) ==
  LET x == join(Output, a.path)
      y == join(Output, b.path)
  IN /\ x # y
     /\ a.type # "directory" => ~IsPrefix(x, y)
     /\ b.type # "directory" => ~IsPrefix(y, x)

StartConc(p) ==
  /\ calls[p].pc = "idle"
  /\ \E e \in ConcEntries :
       /\ \A q \in Procs \ {p} :
            calls[q].pc # "idle" => Compatible(e.file, calls[q].orig)
       /\ Put(p, [IdleCall EXCEPT !.pc = "strip", !.num = ncalls + 1,
                               !.orig = e.file, !.entry = e.file,
                               !.file = e.file, !.input = e.input])
  /\ ncalls' = ncalls + 1
  /\ UNCHANGED <<fs, inodes, log, links, returns, platform, fs0, inodes0>>

ConcWorlds ==
  { [platform |-> "linux", tree |-> Outside],
    [platform |-> "linux", tree |-> Fixture] }

InitConc == InitIn(ConcWorlds)

NextConc == \E p \in Procs : StartConc(p) \/ Step(p)

SpecConc == InitConc /\ [][NextConc]_vars

(***************************************************************************)
(* A concurrent actor on the same filesystem: between the return of        *)
(* safeMakeDir (line 95) and the second realpath (line 101) it replaces    *)
(* the empty parent directory of the destination by a symbolic link to a   *)
(* directory outside the root.                                             *)
(***************************************************************************)
SwapTargets == {Abs(<<nE>>), Abs(<<nOx>>)}

Swap(p, t) ==
  LET c == calls[p]
      d == dirname(c.dest)
  IN /\ c.pc \in {"guard", "recheck"}
     /\ d # Output /\ Exists(d) /\ Kind(d) = "dir"
     /\ \A q \in DOMAIN fs : IsPrefix(d, q) => q = d
     /\ fs' = [fs EXCEPT ![d] = NextIno]
     /\ inodes' = InodesWith(LinkNode(t))
     /\ UNCHANGED <<calls, log, links>>
     /\ Frame

RaceEntries ==
  { File(<<nA, nN>>, <<1, 2>>, 1),
    HardLink(<<nA, nH>>, Rel(<<nF>>)),
    SymLink(<<nA, nK>>, Rel(<<nF>>)),
    Directory(<<nA>>, 2) }

RaceWorlds ==
  { [platform |-> "linux", tree |-> Outside],
    [platform |-> "linux", tree |-> Fixture] }

InitRace == InitIn(RaceWorlds)

NextRace ==
  \/ Start(1, RaceEntries, {NoOpts}, MaxCalls)
  \/ Step(1)
  \/ \E t \in SwapTargets : Swap(1, t)

SpecRace == InitRace /\ [][NextRace]_vars

(***************************************************************************)
(* Properties.                                                             *)
(***************************************************************************)
\* At or beneath the canonical output root, by path components.
Beneath(q) == IsPrefix(Output, q)

LogOf(c) == {e \in log : e.call = c.num}

Wrote == {"create", "truncate", "write"}

\* C1: a File entry is written only to a destination whose canonical parent
\* directory is the canonical root or a descendant of it by path components; a
\* call that returns normally has a destination whose parent is there; no file
\* is created or written outside the root.
C1_Containment ==
  /\ \A e \in log : e.op \in Wrote => Beneath(Parent(e.path))
  /\ \A p \in Procs :
       LET c == calls[p]
           d == realpath(dirname(c.dest))
       IN (c.pc = "done" /\ c.result = "ok" /\ c.file.type = "file"
             /\ c.realOutputPath # <<>>)
          => d.ok /\ Beneath(d.path)

\* C2: everything the calls created lies at or beneath the canonical root, every
\* hard link they created refers to a file located at or beneath the root, and
\* no file located outside the root was created, truncated or changed.
C2_MutationsUnderRoot ==
  /\ \A e \in log : e.op \in {"mkdir", "create", "link", "symlink"} => Beneath(e.path)
  /\ \A l \in links : Beneath(l.src)
  /\ \A q \in DOMAIN fs0 :
       (~Beneath(q) /\ inodes0[fs0[q]].kind = "file")
       => /\ inodes[fs0[q]].data = inodes0[fs0[q]].data
          /\ \A e \in log : e.op \in Wrote => e.ino # fs0[q]

\* C3: a File entry whose destination is a symbolic link under the root fails
\* with SymlinkWriteThrough, whatever the link's target, and writes nothing.
C3_WriteThroughRefused ==
  \A p \in Procs :
    LET c == calls[p]
        w == Walk(<<>>, c.dest, MaxHops, "nofollow")
    IN (c.pc = "done" /\ c.file.type = "file" /\ c.realOutputPath # <<>>
          /\ w.ok /\ Kind(w.path) = "symlink" /\ Beneath(w.path))
       => /\ c.result = "SymlinkWriteThrough"
          /\ \A e \in LogOf(c) : e.op \notin Wrote \cup {"utimes"}

\* C4: after a successful write of a File entry with payload B and modification
\* time T the destination holds exactly B and has mtime T, whatever it held
\* before; the mtime is set only once the whole stream has been written.
C4_RoundTrip ==
  \A p \in Procs :
    LET c == calls[p]
        w == realpath(c.dest)
    IN /\ (c.pc = "done" /\ c.result = "ok" /\ c.file.type = "file"
             /\ c.input.present /\ c.realOutputPath # <<>>)
          => /\ w.ok
             /\ inodes[fs[w.path]].data = c.input.data
             /\ inodes[fs[w.path]].mtime = c.file.mtime
       /\ c.pc \in {"open", "write"} => \A e \in LogOf(c) : e.op # "utimes"
       /\ c.pc = "utimesFile" => inodes[c.fd].data = c.input.data

\* A file that held other, longer content was overwritten by a two-byte payload.
C4_Witness ==
  \E p \in Procs :
    LET c == calls[p] IN
    /\ c.pc = "done" /\ c.result = "ok" /\ c.file.type = "file"
    /\ c.dest = <<nO, nF>> /\ <<nO, nF>> \in DOMAIN fs0
    /\ Len(inodes0[fs0[<<nO, nF>>]].data) > Len(c.input.data)
    /\ Len(c.input.data) = 2

\* C5: once a HardLink entry has been materialised onto an existing file, the
\* new path and the link target denote the same inode, in every later state.
C5_HardLinkIdentity ==
  \A l \in links :
    (l.type = "link" /\ inodes[l.ino].kind = "file")
    => LET a == realpath(l.dest)
           b == realpath(l.existing)
       IN a.ok /\ b.ok /\ fs[a.path] = fs[b.path] /\ fs[a.path] = l.ino

\* A hard link to a file an earlier File entry wrote, and a hard link through
\* which a later File entry wrote.
C5_Witness ==
  /\ \E l \in links, e \in log :
       l.type = "link" /\ e.op = "write" /\ e.ino = l.ino /\ e.call < l.call

\* The components of a path as the archive gives it: a trailing slash is none.
Comps(path) == SelectSeq(path, LAMBDA t : t # Empty)

\* The call has computed its destination.
HasDest(c) == c.pc \notin {"idle", "strip", "filter", "map", "join"} /\ c.realOutputPath # <<>>

Drained(input) == input.present => input.state \in {"flowing", "ended"}

\* C6, as stated: with strip = k a File entry of more than k components is
\* written at join(root, path without its first k components), with the full
\* payload, and nothing named after a stripped component is created.
C6_StripAsStated ==
  \A p \in Procs :
    LET c == calls[p]
        k == c.opts.strip
        path == Comps(c.orig.path)
        w == realpath(c.dest)
    IN (c.orig.type = "file" /\ k > 0 /\ Len(path) > k
          /\ c.opts.filter = "none" /\ c.opts.map = "none")
       => /\ HasDest(c) => c.dest = join(Output, Drop(path, k))
          /\ (c.pc = "done" /\ c.result = "ok")
             => w.ok /\ inodes[fs[w.path]].data = c.input.data
          /\ \A e \in LogOf(c) :
               e.op \in {"mkdir", "create"}
               => Last(e.path) \notin {path[i] : i \in 1..k}

\* C6, amended: the components are those of the normalised path; the file is
\* written at join(root, normalised path without its first k components) with
\* the full payload, and whatever the call creates is the output root or is
\* named by a component of the remaining path.
C6_StripNormalised ==
  \A p \in Procs :
    LET c == calls[p]
        k == c.opts.strip
        path == NormRel(<<>>, c.orig.path)
        w == realpath(c.dest)
    IN (c.orig.type = "file" /\ k > 0 /\ Len(path) > k
          /\ c.opts.filter = "none" /\ c.opts.map = "none")
       => /\ HasDest(c) => c.dest = join(Output, Drop(path, k))
          /\ (c.pc = "done" /\ c.result = "ok")
             => w.ok /\ inodes[fs[w.path]].data = c.input.data
          /\ \A e \in LogOf(c) :
               e.op \in {"mkdir", "create"}
               => e.path = Output \/ Last(e.path) \in Range(Drop(path, k))

\* a/b/n was written with strip = 1 at <root>/b/n, and <root>/a does not exist.
C6_Witness ==
  \E p \in Procs :
    LET c == calls[p] IN
    /\ c.pc = "done" /\ c.result = "ok" /\ c.opts = Opts(1, "none", "none")
    /\ c.orig.path = <<nA, nB, nN>> /\ c.orig.type = "file"
    /\ <<nO, nB, nN>> \in DOMAIN fs /\ inodes[fs[<<nO, nB, nN>>]].data = <<1, 2>>
    /\ <<nO, nA>> \notin DOMAIN fs

\* The filter is configured, was reached, and answers false for the stripped entry.
FilterRejects(c) ==
  /\ c.opts.filter # "none"
  /\ c.opts.strip > 0 => stripDirs(c.orig.path, c.opts.strip) # <<Dot>>
  /\ ~filterFn(c.opts.filter,
               [c.orig EXCEPT !.path = IF c.opts.strip > 0
                                       THEN stripDirs(c.orig.path, c.opts.strip)
                                       ELSE @])

\* C7: an entry the filter rejects makes the call return normally with no change
\* of the filesystem (the output root is not created), map not invoked and the
\* stream resumed; an entry the filter keeps goes on to map with the entry, the
\* stream and the filesystem as they were before the filter.
C7_Filter ==
  \A p \in Procs :
    LET c == calls[p] IN
    /\ (c.pc \notin {"idle", "strip", "filter"} /\ FilterRejects(c))
       => /\ c.pc = "done" /\ c.result = "ok"
          /\ LogOf(c) = {}
          /\ ~c.mapSaw.called
          /\ Drained(c.input)
    /\ (c.pc = "map" /\ c.opts.filter # "none")
       => /\ c.file = [c.orig EXCEPT !.path = IF c.opts.strip > 0
                                              THEN stripDirs(c.orig.path, c.opts.strip)
                                              ELSE @]
          /\ c.input.state = IF c.input.present THEN "paused" ELSE "none"
          /\ c.input.pos = 0
          /\ LogOf(c) = {}

\* A rejected entry with a stream, where the output root did not exist: the
\* root still does not exist and the stream flows.
C7_Witness ==
  \E p \in Procs :
    LET c == calls[p] IN
    /\ c.pc = "done" /\ FilterRejects(c) /\ c.input.present
    /\ c.input.state = "flowing"
    /\ Output \notin DOMAIN fs

\* C8: with strip = N > 0 and a path of exactly N components the call is a
\* successful no-op that creates nothing and drains the stream.
C8_StripToNothing ==
  \A p \in Procs :
    LET c == calls[p] IN
    (c.pc = "done" /\ c.opts.strip > 0 /\ Len(Comps(c.orig.path)) = c.opts.strip
       /\ \A i \in 1..Len(Comps(c.orig.path)) : IsName(Comps(c.orig.path)[i]))
    => c.result = "ok" /\ LogOf(c) = {} /\ Drained(c.input)

\* C9: on every normal return a supplied stream was consumed or drained, also
\* when the entry is no File (here: for calls that strip nothing).
C9_StreamNeverDangling ==
  \A p \in Procs :
    LET c == calls[p] IN
    (c.pc = "done" /\ c.result = "ok" /\ c.opts.strip = 0) => Drained(c.input)

\* C10: the filter sees the stripped, unmapped entry; map is invoked only for
\* entries the filter kept, on the stripped entry; the destination is computed
\* from the path map returned; a map that returns an escaping path is refused.
C10_OptionOrder ==
  \A p \in Procs :
    LET c == calls[p]
        stripped == [c.orig EXCEPT !.path = IF c.opts.strip > 0
                                            THEN stripDirs(c.orig.path, c.opts.strip)
                                            ELSE @]
    IN /\ c.filterSaw.called => c.filterSaw.path = stripped.path
       /\ (c.pc \notin {"idle", "strip", "filter"} /\ c.opts.filter # "none"
             /\ stripped.path # <<Dot>>)
          => c.filterSaw.called
       /\ c.mapSaw.called
          => /\ c.mapSaw.path = stripped.path
             /\ c.opts.filter # "none" => filterFn(c.opts.filter, stripped)
       /\ (c.pc \in {"strip", "filter", "map"}) => ~c.mapSaw.called
       /\ (HasDest(c) /\ c.opts.map # "none")
          => /\ c.mapSaw.called
             /\ c.dest = join(Output, mapFn(c.opts.map, stripped).path)
       /\ (c.pc = "done" /\ c.mapSaw.called /\ c.opts.map = "escape")
          => /\ c.result = "Escape"
             /\ \A e \in LogOf(c) : e.op \in Wrote \cup {"link", "symlink"} => Beneath(e.path)

\* strip, filter and map were all configured and all applied: a/f stripped to f
\* was kept by the filter, renamed by map and written at <root>/uf.
C10_Witness ==
  \E p \in Procs :
    LET c == calls[p] IN
    /\ c.pc = "done" /\ c.result = "ok" /\ c.opts = Opts(1, "all", "prefix")
    /\ c.orig.path = <<nA, nF>>
    /\ c.filterSaw = Saw(<<nF>>) /\ c.mapSaw = Saw(<<nF>>)
    /\ <<nO, <<"u", "f">>>> \in DOMAIN fs

\* C11: a SymLink entry materialised where symbolic links are supported leaves at
\* the destination a symbolic link whose stored target is the entry's link name
\* as given, so that a top-level link to an existing file of the root resolves to
\* that file; on win32 it leaves a hard link to join(root, link name) and no
\* symbolic link.  No call for a SymLink entry runs the symlink guard, opens a
\* file or sets a modification time.
C11_SymLinkEntry ==
  \A p \in Procs :
    LET c == calls[p]
        t == c.file.linkname
        l == readlink(c.dest)
        a == realpath(c.dest)
        b == realpath(join(Output, t.segs))
    IN c.file.type = "symlink"
       => /\ c.pc \notin {"guard", "open", "write", "utimesFile", "utimesDir"}
          /\ \A e \in LogOf(c) : e.op \in {"mkdir", "link", "symlink"}
          /\ (c.pc = "done" /\ c.result = "ok" /\ platform # "win32")
             => /\ l.ok /\ l.target = t
                /\ \E e \in LogOf(c) : e.op = "symlink" /\ e.path = c.dest
                /\ \A e \in LogOf(c) : e.op # "link"
                /\ (Len(c.file.path) = 1 /\ ~t.abs /\ b.ok /\ Kind(b.path) = "file"
                      /\ Beneath(b.path))
                   => a.ok /\ a.path = b.path
          /\ (c.pc = "done" /\ c.result = "ok" /\ platform = "win32")
             => /\ \E k \in links :
                     /\ k.call = c.num /\ k.dest = c.dest
                     /\ k.existing = join(Output, t.segs)
                     /\ a.ok /\ fs[a.path] = k.ino
                /\ \A e \in LogOf(c) : e.op # "symlink"

\* The symbolic link k -> f was created under the root and resolves to <root>/f.
C11_Witness ==
  \E p \in Procs :
    LET c == calls[p] IN
    /\ c.pc = "done" /\ c.result = "ok" /\ c.file.type = "symlink"
    /\ platform = "linux" /\ c.file.linkname = Rel(<<nF>>)
    /\ readlink(<<nO, nK>>).ok /\ readlink(<<nO, nK>>).target = Rel(<<nF>>)
    /\ realpath(<<nO, nK>>).ok /\ realpath(<<nO, nK>>).path = <<nO, nF>>

\* The file a hard link entry names exists when the call is made.
LinkSourcePresent(c) ==
  c.file.type = "link" => join(Output, c.file.linkname.segs) \in DOMAIN fs0

\* C12: two calls in flight at once for entries whose destinations share missing
\* ancestor directories both return normally under every interleaving, and once
\* both have returned each destination exists with its own full content.
C12_ConcurrentCalls ==
  /\ \A p \in Procs :
       (calls[p].pc = "done" /\ LinkSourcePresent(calls[p])) => calls[p].result = "ok"
  /\ (\A p \in Procs : calls[p].pc = "done" /\ LinkSourcePresent(calls[p]))
     => \A p \in Procs :
          LET c == calls[p]
              w == Walk(<<>>, c.dest, MaxHops, "nofollow")
          IN /\ w.ok
             /\ c.file.type = "directory" => Kind(w.path) = "dir"
             /\ c.file.type = "file"
                => Kind(w.path) = "file" /\ inodes[fs[w.path]].data = c.input.data
             /\ c.file.type = "symlink" => Kind(w.path) = "symlink"
             /\ c.file.type = "link" => fs[w.path] = fs0[join(Output, c.file.linkname.segs)]

\* Both calls found <root>/a missing and went up to the root; one of them made
\* <root>/a, the other found it made; both returned normally.
C12_Witness ==
  /\ \A p \in Procs :
       /\ calls[p].pc = "done" /\ calls[p].result = "ok"
       /\ calls[p].file.type = "file"
       /\ \E r \in returns : r.call = calls[p].num /\ r.dir = <<nO>> /\ r.depth = 3
  /\ calls[1].num # calls[2].num
  /\ \E e \in log : e.op = "mkdir" /\ e.path = <<nO, nA>> /\ e.call = calls[1].num
  /\ \E e \in log : e.op = "mkdir" /\ e.path = <<nO, nA, nB>> /\ e.call = calls[2].num

\* C13: with no map, or a map that returns its argument unchanged, the caller's
\* entry has after the call the path, kind, mtime and link name it had before.
C13_EntryImmutable ==
  \A p \in Procs :
    LET c == calls[p] IN
    (c.pc = "done" /\ c.opts.map \in {"none", "same"}) => c.entry = c.orig

\* C14: safeMakeDir never creates a directory outside the root, and every path
\* it returns is the canonical root or a descendant of it by path components.
C14_ResolverContained ==
  /\ \A r \in returns : Beneath(r.path)
  /\ \A e \in log : e.op = "mkdir" => Beneath(e.path)

\* C15: the symlink guard lets a File entry pass only when its destination is no
\* symbolic link, whatever the link's stored target; it runs for File entries
\* only, once the parent directory is resolved and before anything is written.
C15_GuardRefusesEverySymlink ==
  \A p \in Procs :
    LET c == calls[p] IN
    /\ (c.file.type = "file" /\ c.pc \in {"recheck", "open"}) => ~readlink(c.dest).ok
    /\ c.pc = "guard"
       => /\ c.file.type = "file"
          /\ realpath(dirname(c.dest)).ok
          /\ \A e \in LogOf(c) : e.op = "mkdir"

\* C16: when the parent of the destination was replaced, between safeMakeDir and
\* the re-check, by a symbolic link leading outside the root, the call fails
\* with an Escape error and creates no link and writes no file: every link and
\* every file written has its canonical parent at or beneath the root.
C16_RecheckCatchesSwap ==
  /\ \A e \in log :
       e.op \in Wrote \cup {"link", "symlink"} => Beneath(Parent(e.path))
  /\ \A p \in Procs :
       LET c == calls[p]
           r == realpath(dirname(c.dest))
       IN (c.pc = "done" /\ HasDest(c) /\ c.file.type # "directory"
             /\ r.ok /\ ~Beneath(r.path))
          => c.result = "Escape"

\* The directory write hands to safeMakeDir: the destination of a directory
\* entry, the parent of the destination of any other entry.
TopDir(c) == IF c.file.type = "directory" THEN c.dest ELSE dirname(c.dest)

InResolver(c) == c.pc \in {"smdRealpath", "smdCheck", "smdMkdirs", "smdReturn"}

\* C17: when safeMakeDir has returned for a target within the root and the next
\* call invokes it on the same target, the second invocation does not recurse
\* and does not fail, it returns the same canonical path, and the call it
\* belongs to creates no directory.
C17_ResolverIdempotent ==
  \A r1 \in returns :
    (r1.depth = 1 /\ Beneath(r1.path))
    => /\ \A r2 \in returns :
            (r2.depth = 1 /\ r2.dir = r1.dir /\ r2.call = r1.call + 1)
            => /\ r2.path = r1.path
               /\ \A e \in log : e.call = r2.call => e.op # "mkdir"
       /\ \A p \in Procs :
            LET c == calls[p] IN
            (c.num = r1.call + 1 /\ HasDest(c) /\ TopDir(c) = r1.dir)
            => /\ InResolver(c) => Len(c.stack) = 1
               /\ (c.pc = "done" /\ c.result # "ok")
                  => \E r2 \in returns : r2.call = c.num /\ r2.depth = 1

\* The first call made <root>/a and safeMakeDir returned it; the second call's
\* safeMakeDir returned the same path for the same target.
C17_Witness ==
  \E r1, r2 \in returns :
    /\ r1.depth = 1 /\ r2.depth = 1 /\ r1.dir = <<nO, nA>> /\ r2.dir = r1.dir
    /\ r2.call = r1.call + 1 /\ r2.path = <<nO, nA>>
    /\ \E e \in log : e.op = "mkdir" /\ e.path = <<nO, nA>> /\ e.call = r1.call

\* The recursion of safeMakeDir is on strictly shorter paths, each the parent of
\* the one before, none of which could be canonicalised; its depth is bounded by
\* the number of segments of the target.  An Escape error thrown by safeMakeDir
\* comes before any directory is made beneath the root by the call.
C18_Bounded ==
  \A p \in Procs :
    LET c == calls[p] IN
    /\ InResolver(c)
       => /\ Len(c.stack) >= 1 /\ Len(c.stack) <= Len(Comps(TopDir(c))) + 1
          /\ Last(c.stack) = TopDir(c)
          /\ \A i \in 1..(Len(c.stack) - 1) :
               /\ c.stack[i] = dirname(c.stack[i + 1])
               /\ Len(c.stack[i]) < Len(c.stack[i + 1])
               /\ ~realpath(c.stack[i + 1]).ok
    /\ (c.pc = "done" /\ c.result = "Escape" /\ c.stack # <<>>)
       => \A e \in LogOf(c) : e.path = Output

\* C18: every call of safeMakeDir terminates, by returning or by throwing, after
\* a recursion bounded by the number of segments of its target.
C18_ResolverTerminates ==
  /\ []C18_Bounded
  /\ \A p \in Procs : InResolver(calls[p]) ~> ~InResolver(calls[p])

\* safeMakeDir went up two levels, to the root, and came back: it made <root>/k
\* and <root>/k/d and returned to write.
C18_Witness ==
  \E p \in Procs :
    LET c == calls[p] IN
    /\ c.pc = "done" /\ c.result = "ok"
    /\ \E r \in returns : r.call = c.num /\ r.depth = 3 /\ r.dir = Output
    /\ \E r \in returns : r.call = c.num /\ r.depth = 1 /\ r.dir = <<nO, nK, nD>>

\* C19: a failing step ends the call with nothing undone and nothing more done:
\* whatever existed at the start and whatever a call created is still there; a
\* call that failed has set no modification time, and one that failed with an
\* Escape or SymlinkWriteThrough error has made directories at most; after a
\* stream error the destination holds what was written up to the error and has
\* not the entry's modification time.
C19_AbortNoRollback ==
  /\ \A q \in DOMAIN fs0 : q \in DOMAIN fs /\ fs[q] = fs0[q]
  /\ \A e \in log :
       e.op \in {"mkdir", "create", "link", "symlink"}
       => e.path \in DOMAIN fs /\ fs[e.path] = e.ino
  /\ \A p \in Procs :
       LET c == calls[p] IN
       (c.pc = "done" /\ c.result # "ok")
       => /\ \A e \in LogOf(c) : e.op # "utimes"
          /\ c.result \in {"Escape", "SymlinkWriteThrough"}
             => \A e \in LogOf(c) : e.op = "mkdir"
          /\ c.input.state = "errored"
             => /\ c.result = "IO"
                /\ c.opened \in DOMAIN fs /\ fs[c.opened] = c.fd
                /\ inodes[c.fd].data = SubSeq(c.input.data, 1, c.input.pos)
                /\ inodes[c.fd].mtime # c.file.mtime

\* The stream failed after its first byte: the call threw, <root>/a, which the
\* call had made, is there, and <root>/a/n holds that one byte.
C19_Witness ==
  \E p \in Procs :
    LET c == calls[p] IN
    /\ c.pc = "done" /\ c.result = "IO" /\ c.input.state = "errored"
    /\ c.input.pos = 1 /\ Len(c.input.data) = 2
    /\ \E e \in LogOf(c) : e.op = "mkdir" /\ e.path = <<nO, nA>>
    /\ \E e \in LogOf(c) : e.op = "create" /\ e.path = <<nO, nA, nN>>
    /\ <<nO, nA, nN>> \in DOMAIN fs /\ inodes[fs[<<nO, nA, nN>>]].data = <<1>>

\* C20: a File entry handed over without a stream goes through the creation of
\* the root, safeMakeDir on the parent, the symlink guard and the re-check, and
\* then returns normally: the parent directory exists, but the call has created
\* or truncated no file and has set no modification time.
C20_FileWithoutStream ==
  \A p \in Procs :
    LET c == calls[p]
        d == realpath(dirname(c.dest))
    IN (c.file.type = "file" /\ ~c.input.present)
       => /\ c.pc \notin {"open", "write", "utimesFile", "link", "symlink", "utimesDir"}
          /\ \A e \in LogOf(c) : e.op = "mkdir"
          /\ (c.pc = "done" /\ c.result = "ok")
             => /\ \E r \in returns : r.call = c.num /\ r.depth = 1
                /\ d.ok /\ Kind(d.path) = "dir"
                /\ StartsWith(RealStr(d.path), c.realOutputPath)
                /\ preventWritingThroughSymlink(c.dest)
          /\ (c.pc = "done" /\ HasDest(c) /\ d.ok /\ ~preventWritingThroughSymlink(c.dest))
             => c.result = "SymlinkWriteThrough"

\* The call for a/n without a stream returned normally: it made <root>/a, and
\* there is no <root>/a/n.
C20_Witness ==
  \E p \in Procs :
    LET c == calls[p] IN
    /\ c.pc = "done" /\ c.result = "ok" /\ c.file.type = "file" /\ ~c.input.present
    /\ c.dest = <<nO, nA, nN>>
    /\ \E e \in LogOf(c) : e.op = "mkdir" /\ e.path = <<nO, nA>>
    /\ <<nO, nA, nN>> \notin DOMAIN fs

====
